---- MODULE Spec2Model ----
(***************************************************************************)
(* DSM Profile API (TerrainRGB backend), tools/dsm-api/server.py.          *)
(*                                                                         *)
(* The model covers the tile-backed elevation sampling engine:             *)
(*   load_tile_image          the lru_cache'd tile loader                  *)
(*   get_elevation_at_point   tile addressing, pixel pick, RGB decode      *)
(*   startup, get_profile     the two handlers that use them               *)
(*                                                                         *)
(* Numbers.  Longitudes and latitudes are integers of a small window of    *)
(* the tile pyramid; Web-Mercator metres are integers too (Meters per      *)
(* coordinate unit).  A floating-point rounding error is one metre, in     *)
(* either direction.  Elevations are integers in decimetres, so the        *)
(* TerrainRGB formula -10000 + code * 0.1 is exact.  A distance is the     *)
(* exact fraction [num, den].                                              *)
(***************************************************************************)
EXTENDS Integers, Sequences, FiniteSets, TLC

VARIABLES
    tileDirExists,  \* os.path.exists(TILE_DIR)
    disk,           \* the tile files under TILE_DIR: tile id -> Absent, Corrupt or an image
    cache,          \* load_tile_image's lru_cache: entries [key, val], least recently used first
    started,        \* the startup hook has run
    warned,         \* how many times the tile-directory warning was printed
    resp,           \* the last /profile exchange: request, response, and what storage held
    clock,          \* number of load_tile_image calls made so far (direct-call specification)
    lastAccess,     \* tile id -> clock value of its most recent insert or hit
    call,           \* the last direct load_tile_image call: key, result, storage, cache before
    thr,            \* the worker threads of the concurrent specification
    pix,            \* the pixel-addressing specification: inputs and the computed index
    seen            \* tile id -> the rasters the worker threads have read pixels from

vars == <<tileDirExists, disk, cache, started, warned, resp, clock, lastAccess, call, thr, pix, seen>>

-----------------------------------------------------------------------------
(* Program constants and the bounds of the model.                          *)

ZOOM_LEVEL == 14

\* ProfileRequest.sample_count: Field(120, ge=2, le=...)
MinSamples == 2

\* Upper end of sample_count in the model (le=2000 in the source).
MaxSamples == 3

\* Capacity of the tile cache in the model (lru_cache(maxsize=128) in the source).
MaxSize == 2

\* Direct load_tile_image calls explored by the direct-call specification.
MaxOps == 5

\* Lookups each worker thread makes in the concurrent specification.
MaxLookups == 2

\* Largest raster edge, in pixels, of the pixel-addressing specification.
MaxTileSize == 3

\* Tile columns and rows of the window the requests fall in: x in 0..MaxTileX,
\* y in 0..MaxTileY (2^ZOOM_LEVEL columns and rows in the pyramid).
MaxTileX == 1
MaxTileY == 0

\* Coordinate units spanned by one tile at ZOOM_LEVEL, and metres per unit.
TileSpan == 2
Meters == 4

\* Edge, in pixels, of the rasters the tile pipeline writes.
TileSize == 2

\* Python's None; a float that is not finite (nan) is the integer NaN, outside every
\* range the model computes with.
None == [kind |-> "None"]
NaN == -999

\* What a tile's path holds when it holds no readable raster.
Absent == [kind |-> "absent"]
Corrupt == [kind |-> "corrupt"]

Lngs == 0 .. ((MaxTileX + 1) * TileSpan - 1)
Lats == 0 .. ((MaxTileY + 1) * TileSpan - 1)
Tiles == {<<ZOOM_LEVEL, x, y>> : x \in 0 .. MaxTileX, y \in 0 .. MaxTileY}
\* The tile ids with a path under TILE_DIR: the window and one column east of it.
Keys == {<<ZOOM_LEVEL, x, y>> : x \in 0 .. MaxTileX + 1, y \in 0 .. MaxTileY}
Errs == {-1, 0, 1}

Max(a, b) == IF a >= b THEN a ELSE b
Min(a, b) == IF a <= b THEN a ELSE b
Abs(a) == IF a >= 0 THEN a ELSE -a

-----------------------------------------------------------------------------
(* Rasters and the TerrainRGB encoding.                                    *)

\* The raster rendered for a tile: its 24-bit code at (px, py) is base + py * w + px.
TileBase(key) == 100000 + 1000 * (key[2] + 1) + 100 * key[3]
Image(key, w, h) == [kind |-> "image", w |-> w, h |-> h, base |-> TileBase(key)]

\* img.getpixel((px, py)): the (r, g, b) bytes, or IndexError outside the raster.
IndexError == <<>>
getpixel(img, px, py) ==
    IF px < 0 \/ px >= img.w \/ py < 0 \/ py >= img.h
    THEN IndexError
    ELSE LET code == img.base + py * img.w + px
         IN  <<code \div 65536, (code \div 256) % 256, code % 256>>

\* -10000 + ((r * 256 * 256 + g * 256 + b) * 0.1), in decimetres.
decode(rgb) == -100000 + (rgb[1] * 256 * 256 + rgb[2] * 256 + rgb[3])

-----------------------------------------------------------------------------
(* mercantile: tile addressing in Web-Mercator.                            *)

\* int(): truncation toward zero of the quotient a / b, b > 0.
TruncDiv(a, b) == IF a >= 0 THEN a \div b ELSE -((-a) \div b)

\* mercantile.xy(lng, lat): metres; my grows northwards.
xy(lng, lat) == <<lng * Meters, lat * Meters>>

\* mercantile.tile(lng, lat, zoom): the slippy tile, row 0 at the north edge of the
\* window, indices clamped to the pyramid; e[1], e[2] are the rounding errors of the
\* projection.
tile(lng, lat, e) ==
    LET top == (MaxTileY + 1) * TileSpan * Meters
        tx  == (lng * Meters + e[1]) \div (TileSpan * Meters)
        ty  == (top - (lat * Meters + e[2])) \div (TileSpan * Meters)
    IN  <<ZOOM_LEVEL, Max(0, Min(MaxTileX, tx)), Max(0, Min(MaxTileY, ty))>>

\* mercantile.bounds(tile): west, south, east, north.
bounds(t) ==
    LET north == (MaxTileY + 1) * TileSpan - t[3] * TileSpan
    IN  [west |-> t[2] * TileSpan, south |-> north - TileSpan,
         east |-> (t[2] + 1) * TileSpan, north |-> north]

\* Lines 129-137: the fractions of m between lo and hi, times the raster size, truncated.
Truncated(m, lo, hi, width, height) ==
    <<TruncDiv((m[1] - lo[1]) * width, hi[1] - lo[1]),
      TruncDiv((hi[2] - m[2]) * height, hi[2] - lo[2])>>

\* Lines 120-125: the tile's corners projected to metres.
InBounds(b, m, width, height) ==
    Truncated(m, xy(b.west, b.south), xy(b.east, b.north), width, height)

\* Lines 77-137: the pixel index before the clamp.  e[3], e[4] are the rounding
\* errors of the projected point.
RawPixel(lng, lat, width, height, e) ==
    InBounds(bounds(tile(lng, lat, e)),
             <<xy(lng, lat)[1] + e[3], xy(lng, lat)[2] + e[4]>>, width, height)

\* Lines 140-141.
Clamp(raw, width, height) ==
    <<Max(0, Min(width - 1, raw[1])), Max(0, Min(height - 1, raw[2]))>>

\* The pixel index without the clamp of lines 139-141.
PixelIndexUnclamped(lng, lat, width, height, e) ==
    RawPixel(lng, lat, width, height, e)

\* Lines 127-141: the pixel index looked up in a width x height raster.
PixelIndex(lng, lat, width, height, e) ==
    Clamp(RawPixel(lng, lat, width, height, e), width, height)

\* The rounding error of the float arithmetic at a point: a fixed function of the
\* operands (IEEE-754 is deterministic), with every sign occurring in the window.
FloatErr(lng, lat) ==
    <<((lng + lat) % 3) - 1, ((lng + 2 * lat + 1) % 3) - 1,
      ((2 * lng + lat + 2) % 3) - 1, ((lng + lat + 1) % 3) - 1>>

-----------------------------------------------------------------------------
(* The tile store and functools.lru_cache in front of it.                  *)

IsImage(v) == v.kind = "image"

\* Lines 62-69, the undecorated body: None when the file is absent or does not decode.
TileStoreLoad(dsk, key) ==
    IF dsk[key] = Absent THEN None
    ELSE IF dsk[key] = Corrupt THEN None
    ELSE dsk[key]

Entry(key, val) == [key |-> key, val |-> val]
CacheKeys(c) == {c[i].key : i \in 1 .. Len(c)}
CacheIndex(c, key) == CHOOSE i \in 1 .. Len(c) : c[i].key = key
CacheVal(c, key) == c[CacheIndex(c, key)].val
MoveToEnd(c, i) == Append(SubSeq(c, 1, i - 1) \o SubSeq(c, i + 1, Len(c)), c[i])

\* A hit that leaves the entry where it is in the recency order.
CacheTouchNoMove(c, key) == c

\* lru_cache on a hit: the entry moves to the most-recently-used end.
CacheTouch(c, key) == MoveToEnd(c, CacheIndex(c, key))

\* An insert that overwrites the entry another thread added meanwhile.
CacheInsertOverwrite(c, key, val) ==
    IF key \in CacheKeys(c) THEN [c EXCEPT ![CacheIndex(c, key)] = Entry(key, val)]
    ELSE IF Len(c) >= MaxSize THEN Append(Tail(c), Entry(key, val))
    ELSE Append(c, Entry(key, val))

\* lru_cache after the wrapped call returned: an entry added meanwhile is kept;
\* a full cache drops its least recently used entry; the result, None included, is stored.
CacheInsert(c, key, val) ==
    IF key \in CacheKeys(c) THEN c
    ELSE IF Len(c) >= MaxSize THEN Append(Tail(c), Entry(key, val))
    ELSE Append(c, Entry(key, val))

\* The miss path: the wrapped function's result is stored and returned.
Miss(c, key, v) == [cache |-> CacheInsert(c, key, v), result |-> v, read |-> TRUE]

\* load_tile_image(z, x, y), run to completion by one thread.
load_tile_image(c, dsk, key) ==
    IF key \in CacheKeys(c)
    THEN [cache |-> CacheTouch(c, key), result |-> CacheVal(c, key), read |-> FALSE]
    ELSE Miss(c, key, TileStoreLoad(dsk, key))

-----------------------------------------------------------------------------
(* The environment: the tile pipeline creates the directory and the files. *)

DiskContents == {Corrupt} \cup {Image(k, TileSize, TileSize) : k \in Keys}

NoCall == [made |-> FALSE, key |-> None, result |-> None, stored |-> None, read |-> FALSE, before |-> <<>>]
NoResp == [status |-> 0]
NoPix == [done |-> FALSE]

EnvInit ==
    /\ tileDirExists = FALSE
    /\ disk = [k \in Keys |-> Absent]
    /\ cache = <<>>

MkTileDir ==
    /\ ~tileDirExists
    /\ tileDirExists' = TRUE
    /\ UNCHANGED <<disk, cache, started, warned, resp, clock, lastAccess, call, thr, pix, seen>>

WriteTile(key, content) ==
    /\ tileDirExists
    /\ disk[key] = Absent
    /\ content \in {Corrupt, Image(key, TileSize, TileSize)}
    /\ disk' = [disk EXCEPT ![key] = content]
    /\ UNCHANGED <<tileDirExists, cache, started, warned, resp, clock, lastAccess, call, thr, pix, seen>>

-----------------------------------------------------------------------------
(* Direct calls of load_tile_image, with a clock that stamps each access.  *)

LoadTile(key) ==
    /\ clock < MaxOps
    /\ LET r == load_tile_image(cache, disk, key)
       IN  /\ cache' = r.cache
           /\ call' = [made |-> TRUE, key |-> key, result |-> r.result, stored |-> disk[key],
                       read |-> r.read, before |-> cache]
    /\ clock' = clock + 1
    /\ lastAccess' = [lastAccess EXCEPT ![key] = clock + 1]
    /\ UNCHANGED <<tileDirExists, disk, started, warned, resp, thr, pix, seen>>

InitCache ==
    /\ EnvInit
    /\ started = TRUE
    /\ warned = 0
    /\ resp = NoResp
    /\ clock = 0
    /\ lastAccess = [k \in Keys |-> 0]
    /\ call = NoCall
    /\ thr = <<>>
    /\ pix = NoPix
    /\ seen = <<>>

NextCache ==
    \/ MkTileDir
    \/ \E k \in Keys, c \in DiskContents : WriteTile(k, c)
    \/ \E k \in Keys : LoadTile(k)

SpecCache == InitCache /\ [][NextCache]_vars

\* C1: a None returned while the tile's file was absent is not retained: a lookup made
\* once the file is a readable raster returns that raster, not None.
C1_MissNotRetained ==
    (call.made /\ IsImage(call.stored)) => call.result = call.stored

\* C2: the cache never holds more than MaxSize entries, and an entry that an insert
\* evicts is the one whose most recent access (insert or hit) is oldest.
C2_BoundedLRU ==
    [][/\ Len(cache') <= MaxSize
       /\ \A k \in CacheKeys(cache) \ CacheKeys(cache') :
              \A j \in CacheKeys(cache) : lastAccess[k] <= lastAccess[j]]_vars

\* An insert into a full cache evicted an entry that had been hit after its insert.
C2_Witness ==
    /\ call.made
    /\ Len(call.before) = MaxSize
    /\ call.key \notin CacheKeys(call.before)
    /\ Len(cache) = MaxSize
    /\ \E i \in 1 .. Len(call.before) :
          /\ call.before[i].key \notin CacheKeys(cache)
          /\ \E j \in 1 .. Len(call.before) : j # i /\ lastAccess[call.before[j].key] > 2

-----------------------------------------------------------------------------
(* get_elevation_at_point and get_profile.                                 *)

Float(v) == [kind |-> "float", v |-> v]
Frac(num, den) == [num |-> num, den |-> den]
IsFinite(x) == x # NaN

\* Lines 143-149: the decoded elevation; an exception of getpixel gives None.
DecodeOrNone(rgb) == IF rgb = IndexError THEN None ELSE Float(decode(rgb))

\* Lines 84-149 for a loaded raster: pixel index, getpixel, TerrainRGB decode.
ElevationAt(img, p) == DecodeOrNone(getpixel(img, p[1], p[2]))
ElevationOf(img, lng, lat) ==
    ElevationAt(img, PixelIndex(lng, lat, img.w, img.h, FloatErr(lng, lat)))

\* Lines 80-82: None without a raster.
FromLoad(r, lng, lat) ==
    [cache |-> r.cache,
     elev  |-> IF r.result = None THEN None ELSE ElevationOf(r.result, lng, lat)]

\* Lines 71-149: the tile of the point, the cached load, the elevation.
get_elevation_at_point(c, dsk, lng, lat) ==
    FromLoad(load_tile_image(c, dsk, tile(lng, lat, FloatErr(lng, lat))), lng, lat)

\* What the tile store alone gives for the point, no cache in front of it.
StoredElevation(dsk, lng, lat) ==
    FromLoad([cache |-> <<>>,
              result |-> TileStoreLoad(dsk, tile(lng, lat, FloatErr(lng, lat)))],
             lng, lat).elev

\* GEOD.inv(lon1, lat1, lon2, lat2)[2]: the geodesic distance in metres; nan when an
\* operand is nan, zero exactly when the points coincide.
GeodInv(s, e) ==
    IF \E i \in 1 .. 2 : ~IsFinite(s[i]) \/ ~IsFinite(e[i]) THEN NaN
    ELSE 100 * (Abs(e[1] - s[1]) + Abs(e[2] - s[2]))

\* GEOD.npts(lon1, lat1, lon2, lat2, k): k points evenly spaced between the endpoints.
Npts(s, e, k) ==
    [i \in 1 .. k |-> <<s[1] + ((e[1] - s[1]) * i) \div (k + 1),
                        s[2] + ((e[2] - s[2]) * i) \div (k + 1)>>]

\* The guard with < in place of <=.
IsDegenerateStrict(total) == ~IsFinite(total) \/ total < 0

\* Line 187.
IsDegenerate(total) == ~IsFinite(total) \/ total <= 0

\* The sampled points without the closing endpoint.
PointsWgsNoEnd(s, e, n) ==
    IF n = 2 THEN <<s>> ELSE <<s>> \o Npts(s, e, n - 2)

\* Lines 191-195.
PointsWgs(s, e, n) ==
    IF n = 2 THEN <<s, e>> ELSE <<s>> \o Npts(s, e, n - 2) \o <<e>>

\* The distances divided by n in place of n - 1.
DistancesOverN(total, n) == [i \in 1 .. n |-> Frac(total * (i - 1), n)]

\* Line 207: total_dist * i / (n - 1) for i in range(n).
Distances(total, n) == [i \in 1 .. n |-> Frac(total * (i - 1), n - 1)]

\* Lines 203-204: one more point sampled.
Sampled(prev, r) == [cache |-> r.cache, elev_m |-> Append(prev.elev_m, r.elev)]
SampleNext(prev, dsk, pt) ==
    Sampled(prev, get_elevation_at_point(prev.cache, dsk, pt[1], pt[2]))

\* Lines 198-204: st[i] is the cache and the elevations after the first i points.
Elevations(points, c, dsk) ==
    LET st[i \in 0 .. Len(points)] ==
            IF i = 0 THEN [cache |-> c, elev_m |-> <<>>]
            ELSE SampleNext(st[i - 1], dsk, points[i])
    IN  st[Len(points)]

Error(code, c) ==
    [cache |-> c, status |-> code, distances_m |-> <<>>, elev_m |-> <<>>,
     lngs |-> <<>>, lats |-> <<>>, lookups |-> 0]

\* Line 188.
DegenerateProfile(req, c) ==
    [cache |-> c, status |-> 200, distances_m |-> <<Frac(0, 1)>>, elev_m |-> <<None>>,
     lngs |-> <<req.start[1]>>, lats |-> <<req.start[2]>>, lookups |-> 0]

\* Lines 206-214.
Assemble(total, n, points, r) ==
    [cache |-> r.cache, status |-> 200, distances_m |-> Distances(total, n),
     elev_m |-> r.elev_m,
     lngs |-> [i \in 1 .. Len(points) |-> points[i][1]],
     lats |-> [i \in 1 .. Len(points) |-> points[i][2]],
     lookups |-> Len(points)]

\* Lines 190-214.
SampledProfile(req, total, points, dsk, c) ==
    Assemble(total, req.n, points, Elevations(points, c, dsk))

\* Lines 187-214.
ProfileOf(req, total, dsk, c) ==
    IF IsDegenerate(total) THEN DegenerateProfile(req, c)
    ELSE SampledProfile(req, total, PointsWgs(req.start, req.end, req.n), dsk, c)

\* Lines 180-214: the handler past its two checks.
Profile(req, dsk, c) == ProfileOf(req, GeodInv(req.start, req.end), dsk, c)

\* The handler without the tile-directory check of lines 171-175.
get_profile_NoDirCheck(req, dirExists, dsk, c) ==
    IF Len(req.start) # 2 \/ Len(req.end) # 2 THEN Error(400, c)
    ELSE Profile(req, dsk, c)

\* Lines 169-214.
get_profile(req, dirExists, dsk, c) ==
    IF ~dirExists THEN Error(500, c)
    ELSE IF Len(req.start) # 2 \/ Len(req.end) # 2 THEN Error(400, c)
    ELSE Profile(req, dsk, c)

Body(r) ==
    [status |-> r.status, distances_m |-> r.distances_m, elev_m |-> r.elev_m,
     lngs |-> r.lngs, lats |-> r.lats]

\* The start and end a request may carry: the points of the window, a point with a
\* nan longitude, and a list that is not [lng, lat].
Endpoints == {<<lng, lat>> : lng \in Lngs, lat \in Lats} \cup {<<NaN, 0>>, <<0, 0, 0>>}

\* Lines 151-157: the warning is printed when the tile directory is absent.
Startup ==
    /\ ~started
    /\ started' = TRUE
    /\ warned' = IF tileDirExists THEN warned ELSE warned + 1
    /\ UNCHANGED <<tileDirExists, disk, cache, resp, clock, lastAccess, call, thr, pix, seen>>

\* The exchange: the response r, the request, whether the tile directory existed, the
\* elevations the tile store alone held for the points looked up, and the response cold
\* that an empty cache gives.
Exchange(req, r, cold) ==
    /\ cache' = r.cache
    /\ resp' = [status |-> r.status, distances_m |-> r.distances_m,
                elev_m |-> r.elev_m, lngs |-> r.lngs, lats |-> r.lats,
                lookups |-> r.lookups, req |-> req, dir |-> tileDirExists,
                stored |-> [i \in 1 .. r.lookups |->
                               StoredElevation(disk, r.lngs[i], r.lats[i])],
                cold |-> Body(cold)]

Handle(req) ==
    Exchange(req, get_profile(req, tileDirExists, disk, cache),
             get_profile(req, tileDirExists, disk, <<>>))

\* POST /profile, handled to completion.
GetProfile(start, end, n) ==
    /\ started
    /\ resp = NoResp
    /\ Handle([start |-> start, end |-> end, n |-> n])
    /\ UNCHANGED <<tileDirExists, disk, started, warned, clock, lastAccess, call, thr, pix, seen>>

\* The response is handed to the transport.
Respond ==
    /\ resp # NoResp
    /\ resp' = NoResp
    /\ UNCHANGED <<tileDirExists, disk, cache, started, warned, clock, lastAccess, call, thr, pix, seen>>

Init ==
    /\ EnvInit
    /\ started = FALSE
    /\ warned = 0
    /\ resp = NoResp
    /\ clock = 0
    /\ lastAccess = [k \in Keys |-> 0]
    /\ call = NoCall
    /\ thr = <<>>
    /\ pix = NoPix
    /\ seen = <<>>

Next ==
    \/ MkTileDir
    \/ \E k \in Keys, c \in DiskContents : WriteTile(k, c)
    \/ Startup
    \/ \E s \in Endpoints, e \in Endpoints, n \in MinSamples .. MaxSamples : GetProfile(s, e, n)
    \/ Respond

Spec == Init /\ [][Next]_vars

-----------------------------------------------------------------------------
(* The claims about /profile, checked under Spec.                          *)

Answered == resp.status # 0
WellFormed(req) == Len(req.start) = 2 /\ Len(req.end) = 2
HasNaN(req) == \E i \in 1 .. 2 : req.start[i] = NaN \/ req.end[i] = NaN
DegenerateRequest(req) == req.start = req.end \/ HasNaN(req)
LessEq(a, b) == a.num * b.den <= b.num * a.den

\* C3: in a non-degenerate request made with the tile directory in place, a sample whose tile is
\* missing or undecodable gets None and every sample whose tile is a readable raster
\* gets its decoded elevation; the request returns 200 with one entry per sampled
\* point, after one lookup per point.
C3_MissingTileIsolated ==
    (Answered /\ resp.dir /\ WellFormed(resp.req) /\ ~DegenerateRequest(resp.req)) =>
        /\ resp.status = 200
        /\ Len(resp.elev_m) = Len(resp.lngs)
        /\ resp.lookups = Len(resp.lngs)
        /\ \A i \in 1 .. Len(resp.elev_m) : resp.elev_m[i] = resp.stored[i]

C6_SameResponseAnyCache ==
    Answered => Body(resp) = resp.cold

\* C7: a non-degenerate request answered with a profile has four arrays of length
\* sample_count; the first point is start and the last is end.
C7_ArraysHaveSampleCount ==
    (Answered /\ resp.status = 200 /\ ~DegenerateRequest(resp.req)) =>
        /\ Len(resp.distances_m) = resp.req.n
        /\ Len(resp.elev_m) = resp.req.n
        /\ Len(resp.lngs) = resp.req.n
        /\ Len(resp.lats) = resp.req.n
        /\ <<resp.lngs[1], resp.lats[1]>> = resp.req.start
        /\ <<resp.lngs[resp.req.n], resp.lats[resp.req.n]>> = resp.req.end

\* A profile of three samples between two distinct points.
C7_Witness ==
    /\ Answered
    /\ resp.status = 200
    /\ resp.req.n = 3
    /\ resp.req.start # resp.req.end
    /\ Len(resp.lngs) = 3
    /\ Len(resp.elev_m) = 3

C9_DistancesNonDecreasing ==
    (Answered /\ resp.status = 200) =>
        /\ resp.distances_m[1].num = 0
        /\ \A i \in 1 .. Len(resp.distances_m) - 1 :
               LessEq(resp.distances_m[i], resp.distances_m[i + 1])
        /\ ~DegenerateRequest(resp.req) =>
               \A i \in 1 .. Len(resp.distances_m) :
                   resp.distances_m[i].num * (resp.req.n - 1)
                       = GeodInv(resp.req.start, resp.req.end) * (i - 1) * resp.distances_m[i].den

\* A profile of three samples whose distances strictly increase.
C9_Witness ==
    /\ Answered
    /\ resp.status = 200
    /\ resp.req.n = 3
    /\ Len(resp.distances_m) = 3
    /\ ~LessEq(resp.distances_m[2], resp.distances_m[1])
    /\ ~LessEq(resp.distances_m[3], resp.distances_m[2])

-----------------------------------------------------------------------------
(* The pixel index of get_elevation_at_point, over points on and off the   *)
(* tile edges, raster sizes and rounding errors.                           *)

EdgeLngs == 0 .. (MaxTileX + 1) * TileSpan
EdgeLats == 0 .. (MaxTileY + 1) * TileSpan

InitPixel ==
    /\ EnvInit
    /\ started = TRUE
    /\ warned = 0
    /\ resp = NoResp
    /\ clock = 0
    /\ lastAccess = [k \in Keys |-> 0]
    /\ call = NoCall
    /\ thr = <<>>
    /\ seen = <<>>
    /\ pix \in [done : {FALSE}, lng : EdgeLngs, lat : EdgeLats,
                w : 1 .. MaxTileSize, h : 1 .. MaxTileSize,
                e : Errs \X Errs \X Errs \X Errs,
                raw : {<<0, 0>>}, p : {<<0, 0>>}]

\* Lines 127-141 for the point, raster size and rounding errors drawn.
ComputePixel ==
    /\ ~pix.done
    /\ pix' = [pix EXCEPT !.done = TRUE,
                          !.raw = RawPixel(pix.lng, pix.lat, pix.w, pix.h, pix.e),
                          !.p = PixelIndex(pix.lng, pix.lat, pix.w, pix.h, pix.e)]
    /\ UNCHANGED <<tileDirExists, disk, cache, started, warned, resp, clock, lastAccess,
                   call, thr, seen>>

NextPixel == ComputePixel

SpecPixel == InitPixel /\ [][NextPixel]_vars

\* C10: the pixel index looked up lies in [0, width-1] x [0, height-1], and is the
\* truncated fraction itself whenever that is in range.
C10_PixelInRange ==
    pix.done =>
        /\ 0 <= pix.p[1] /\ pix.p[1] <= pix.w - 1
        /\ 0 <= pix.p[2] /\ pix.p[2] <= pix.h - 1
        /\ (0 <= pix.raw[1] /\ pix.raw[1] <= pix.w - 1) => pix.p[1] = pix.raw[1]
        /\ (0 <= pix.raw[2] /\ pix.raw[2] <= pix.h - 1) => pix.p[2] = pix.raw[2]

\* A point on the east edge of its tile whose fraction reaches 1: the truncated
\* column is width, and the column looked up is width - 1.
C10_Witness ==
    /\ pix.done
    /\ pix.lng % TileSpan = 0
    /\ pix.raw[1] = pix.w
    /\ pix.p[1] = pix.w - 1
    /\ pix.raw[2] = pix.h
    /\ pix.p[2] = pix.h - 1

-----------------------------------------------------------------------------
(* Concurrent requests: the worker threads' calls of load_tile_image       *)
(* interleaved.  lru_cache looks the key up and stores the result under    *)
(* its lock; the wrapped function runs between the two, outside the lock.  *)

Threads == {1, 2}

Idle(n) == [pc |-> "idle", key |-> <<ZOOM_LEVEL, 0, 0>>, val |-> None, img |-> None, left |-> n]

InitConc ==
    /\ EnvInit
    /\ started = TRUE
    /\ warned = 0
    /\ resp = NoResp
    /\ clock = 0
    /\ lastAccess = [k \in Keys |-> 0]
    /\ call = NoCall
    /\ pix = NoPix
    /\ thr = [t \in Threads |-> Idle(MaxLookups)]
    /\ seen = [k \in Keys |-> {}]

\* Line 80, the cache lookup of lru_cache: a hit returns the stored value and
\* refreshes its recency; a miss goes on to the wrapped function.
Lookup(t, key) ==
    /\ thr[t].pc = "idle"
    /\ thr[t].left > 0
    /\ IF key \in CacheKeys(cache)
       THEN /\ cache' = CacheTouch(cache, key)
            /\ thr' = [thr EXCEPT ![t].pc = "got", ![t].key = key,
                                  ![t].img = CacheVal(cache, key)]
       ELSE /\ cache' = cache
            /\ thr' = [thr EXCEPT ![t].pc = "load", ![t].key = key]
    /\ UNCHANGED <<tileDirExists, disk, started, warned, resp, clock, lastAccess, call,
                   pix, seen>>

\* Lines 62-69, outside the cache's lock.
ReadStorage(t) ==
    /\ thr[t].pc = "load"
    /\ thr' = [thr EXCEPT ![t].pc = "store", ![t].val = TileStoreLoad(disk, thr[t].key)]
    /\ UNCHANGED <<tileDirExists, disk, cache, started, warned, resp, clock, lastAccess,
                   call, pix, seen>>

\* lru_cache stores the result and returns it.
Store(t) ==
    /\ thr[t].pc = "store"
    /\ cache' = CacheInsert(cache, thr[t].key, thr[t].val)
    /\ thr' = [thr EXCEPT ![t].pc = "got", ![t].img = thr[t].val, ![t].val = None]
    /\ UNCHANGED <<tileDirExists, disk, started, warned, resp, clock, lastAccess, call,
                   pix, seen>>

\* Lines 81-149: None is returned, or the pixel is read from the raster in hand.
ReadPixel(t) ==
    /\ thr[t].pc = "got"
    /\ seen' = IF thr[t].img = None THEN seen
               ELSE [seen EXCEPT ![thr[t].key] = @ \cup {thr[t].img}]
    /\ thr' = [thr EXCEPT ![t] = Idle(thr[t].left - 1)]
    /\ UNCHANGED <<tileDirExists, disk, cache, started, warned, resp, clock, lastAccess,
                   call, pix>>

NextConc ==
    \/ MkTileDir
    \/ \E k \in Keys, c \in DiskContents : WriteTile(k, c)
    \/ \E t \in Threads, k \in Keys : Lookup(t, k)
    \/ \E t \in Threads : ReadStorage(t)
    \/ \E t \in Threads : Store(t)
    \/ \E t \in Threads : ReadPixel(t)

SpecConc == InitConc /\ [][NextConc]_vars

\* The rasters in the threads' hands and those already read from, per tile id.
InHand(k) == {thr[t].img : t \in {u \in Threads : thr[u].pc = "got" /\ thr[u].key = k}} \ {None}

\* C5: under every interleaving, the threads that obtain a raster for one tile id
\* obtain the same raster, whether from the cache or from storage and whenever they
\* obtain it, and an entry of the cache keeps its value for as long as it is resident.
C5_ResidentTilesImmutable ==
    /\ [](\A k \in Keys : Cardinality(InHand(k) \cup seen[k]) <= 1)
    /\ [][\A k \in CacheKeys(cache) \cap CacheKeys(cache') :
              CacheVal(cache', k) = CacheVal(cache, k)]_vars

\* One thread holds the raster of a tile that the other thread's inserts have
\* evicted meanwhile, and that other thread holds the raster of another tile.
C5_Witness ==
    /\ thr[1].pc = "got"
    /\ IsImage(thr[1].img)
    /\ thr[1].key \notin CacheKeys(cache)
    /\ thr[2].pc = "got"
    /\ IsImage(thr[2].img)
    /\ thr[2].key # thr[1].key
    /\ Len(cache) = MaxSize

====
